---- MODULE Spec2Model ----
(***************************************************************************)
(* Model of haxwagon/gameoflife (src/main.go): a sparse Game of Life that  *)
(* parses a "#Life 1.06" file, runs a number of generations and prints the *)
(* live cells.                                                             *)
(*                                                                         *)
(* A Cell is the pair <<x, y>>; Cells (map[Cell]struct{}) is a set of      *)
(* cells.  A line of text is a sequence of one-character strings, a file   *)
(* a sequence of lines.  The int64 coordinate range is scaled down to      *)
(* MinInt64..MaxInt64 so that its extremes are reachable.                  *)
(***************************************************************************)
EXTENDS Integers, Sequences, FiniteSets, Bags, TLC

\* ------------------------------------------------------------------ bounds

\* math.MaxInt64, scaled down; the range keeps the two's-complement shape.
MaxInt64 == 3

MinInt64 == -MaxInt64 - 1

\* Longest input file (in lines) among the enumerated parser inputs.
MaxLines == 4

\* Largest value of the -iterations flag.
MaxIterations == 2

\* aliveCount is a uint8: arithmetic modulo 2^8.
Uint8Mod == 256

Int64 == MinInt64..MaxInt64

\* int64 arithmetic wraps around (Go defines signed overflow as wrapping).
Wrap64(n) == ((n - MinInt64) % (MaxInt64 - MinInt64 + 1)) + MinInt64

\* ------------------------------------------------------------ Cell, Cells

AllCells == Int64 \X Int64

RangeOf(seq) == {seq[k] : k \in 1..Len(seq)}

\* yieldForX as an unguarded producer: every offset is sent, wrapping.
YieldForXUnguarded(cell, x) ==
    <<  <<x, Wrap64(cell[2] - 1)>> >>
    \o (IF cell[1] # x THEN << <<x, cell[2]>> >> ELSE << >>)
    \o <<  <<x, Wrap64(cell[2] + 1)>> >>

YieldForXWithSelf(cell, x) ==
    (IF cell[2] > MinInt64 THEN << <<x, Wrap64(cell[2] - 1)>> >> ELSE << >>)
    \o << <<x, cell[2]>> >>
    \o (IF cell[2] < MaxInt64 THEN << <<x, Wrap64(cell[2] + 1)>> >> ELSE << >>)

\* The closure yieldForX of Cell.neighbors: the cells it sends for column x.
YieldForX(cell, x) ==
    (IF cell[2] > MinInt64 THEN << <<x, Wrap64(cell[2] - 1)>> >> ELSE << >>)
    \o (IF cell[1] # x THEN << <<x, cell[2]>> >> ELSE << >>)
    \o (IF cell[2] < MaxInt64 THEN << <<x, Wrap64(cell[2] + 1)>> >> ELSE << >>)

NeighborsWrapping(cell) ==
    YieldForXUnguarded(cell, Wrap64(cell[1] - 1))
    \o YieldForXUnguarded(cell, cell[1])
    \o YieldForXUnguarded(cell, Wrap64(cell[1] + 1))

\* Cell.neighbors: the sequence of cells sent on neighborsCh before close.
Neighbors(cell) ==
    (IF cell[1] > MinInt64 THEN YieldForX(cell, Wrap64(cell[1] - 1)) ELSE << >>)
    \o YieldForX(cell, cell[1])
    \o (IF cell[1] < MaxInt64 THEN YieldForX(cell, Wrap64(cell[1] + 1)) ELSE << >>)

\* Cells.hasCell
HasCell(cs, cell) == cell \in cs

\* Cells.addCell
AddCell(cs, cell) == cs \cup {cell}

RemoveCellNoop(cs, cell) == cs

\* Cells.removeCell
RemoveCell(cs, cell) == cs \ {cell}

RECURSIVE CountAlive(_, _, _, _)
\* The loop of numAliveNeighbors over the first k cells received.
CountAlive(cs, ch, k, aliveCount) ==
    IF k > Len(ch) THEN aliveCount
    ELSE CountAlive(cs, ch, k + 1,
                    IF HasCell(cs, ch[k]) THEN (aliveCount + 1) % Uint8Mod
                    ELSE aliveCount)

\* Cells.numAliveNeighbors
NumAliveNeighbors(cs, cell) == CountAlive(cs, Neighbors(cell), 1, 0)

DeadNeighborsOfAll(cs, cell) == RangeOf(Neighbors(cell))

\* One live cell's contribution to deadNeighborCells in Cells.deadNeighbors.
DeadNeighborsOf(cs, cell) ==
    {Neighbors(cell)[k] : k \in {j \in 1..Len(Neighbors(cell)) :
                                    ~HasCell(cs, Neighbors(cell)[j])}}

ShouldDieOffByOne(aliveNeighbors) == aliveNeighbors < 2 \/ aliveNeighbors >= 3

\* The death test of runGameOfLife.
ShouldDie(aliveNeighbors) == aliveNeighbors < 2 \/ aliveNeighbors > 3

ShouldBeBornAtTwo(aliveNeighbors) == aliveNeighbors = 2

\* The birth test of runGameOfLife.
ShouldBeBorn(aliveNeighbors) == aliveNeighbors = 3

\* ------------------------------------------------------------------- text

\* FILE_HEADER = "#Life 1.06"
FILE_HEADER == <<"#", "L", "i", "f", "e", " ", "1", ".", "0", "6">>

Digits == <<"0", "1", "2", "3", "4", "5", "6", "7", "8", "9">>

IsDigit(ch) == \E d \in 1..10 : Digits[d] = ch

DigitVal(ch) == (CHOOSE d \in 1..10 : Digits[d] = ch) - 1

\* unicode.IsSpace on the characters that occur in a line.
IsSpace(ch) == ch \in {" ", "\t"}

RECURSIVE FormatNat(_)
\* The decimal digits of n >= 0, as the verb %d writes them.
FormatNat(n) ==
    IF n < 10 THEN <<Digits[n + 1]>>
    ELSE FormatNat(n \div 10) \o <<Digits[(n % 10) + 1]>>

\* The verb %d on an int64.
FormatInt(n) == IF n < 0 THEN <<"-">> \o FormatNat(-n) ELSE FormatNat(n)

\* fmt.Fprintf(w, "%d %d\n", cell.x, cell.y): the line written for a cell.
FormatCell(cell) == FormatInt(cell[1]) \o <<" ">> \o FormatInt(cell[2])

RECURSIVE TrimLeft(_)
TrimLeft(line) ==
    IF line # << >> /\ IsSpace(Head(line)) THEN TrimLeft(Tail(line)) ELSE line

RECURSIVE TrimRight(_)
TrimRight(line) ==
    IF line # << >> /\ IsSpace(line[Len(line)])
    THEN TrimRight(SubSeq(line, 1, Len(line) - 1))
    ELSE line

\* strings.TrimSpace
TrimSpace(line) == TrimRight(TrimLeft(line))

\* strings.HasPrefix(line, "#")
HasPrefix(line) == line # << >> /\ Head(line) = "#"

RECURSIVE DigitRun(_)
\* The length of the longest prefix of digits (scanNumber's token).
DigitRun(s) ==
    IF s # << >> /\ IsDigit(Head(s)) THEN 1 + DigitRun(Tail(s)) ELSE 0

RECURSIVE ParseNat(_, _)
\* strconv.ParseInt's accumulation of the digits of tok onto acc.
ParseNat(tok, acc) ==
    IF tok = << >> THEN acc
    ELSE ParseNat(Tail(tok), acc * 10 + DigitVal(Head(tok)))

\* The verb %d of fmt.Fscanf on the text s: skip spaces, an optional sign,
\* a run of digits, a value that fits an int64.  rest is the unread text.
ScanInt(s) ==
    LET t      == TrimLeft(s)
        signed == t # << >> /\ Head(t) \in {"+", "-"}
        u      == IF signed THEN Tail(t) ELSE t
        n      == DigitRun(u)
        mag    == ParseNat(SubSeq(u, 1, n), 0)
        val    == IF signed /\ Head(t) = "-" THEN -mag ELSE mag
    IN  IF n = 0 \/ val < MinInt64 \/ val > MaxInt64
        THEN [ok |-> FALSE, val |-> 0, rest |-> u]
        ELSE [ok |-> TRUE, val |-> val, rest |-> SubSeq(u, n + 1, Len(u))]

\* fmt.Fscanf(strings.NewReader(line), "%d %d", &cell.x, &cell.y): the
\* number of items scanned and the cell; text after the second is not read.
Fscanf(line) ==
    LET a == ScanInt(line)
        b == ScanInt(a.rest)
    IN  IF ~a.ok THEN [items |-> 0, cell |-> <<0, 0>>]
        ELSE IF ~b.ok THEN [items |-> 1, cell |-> <<a.val, 0>>]
        ELSE [items |-> 2, cell |-> <<a.val, b.val>>]

\* parseCells returns nil for the cell set on every error.  nil is kept
\* apart from every cell set, the empty one included.
Nil == {<< >>}

HeaderCountsAnywhere(line, cs) == line = FILE_HEADER

\* The test that lets a comment line count as the header.
HeaderCounts(line, cs) == line = FILE_HEADER /\ Cardinality(cs) = 0

LineErrorPartial(cs) ==
    [cells |-> cs, err |-> "line", line |-> Cardinality(cs) + 1]

\* The return on a line that does not scan as two integers.
LineError(cs) ==
    [cells |-> Nil, err |-> "line", line |-> Cardinality(cs) + 1]

RECURSIVE ScanLines(_, _, _, _)
\* The scanner loop of parseCells from line i on, and its returns.
ScanLines(lines, i, cs, headerFound) ==
    IF i > Len(lines)
    THEN IF ~headerFound
         THEN [cells |-> Nil, err |-> "header", line |-> 0]
         ELSE [cells |-> cs, err |-> "", line |-> 0]
    ELSE LET line == TrimSpace(lines[i])
         IN  IF HasPrefix(line)
             THEN ScanLines(lines, i + 1, cs,
                            headerFound \/ HeaderCounts(line, cs))
             ELSE IF Fscanf(line).items < 2
                  THEN LineError(cs)
                  ELSE ScanLines(lines, i + 1,
                                 AddCell(cs, Fscanf(line).cell), headerFound)

\* parseCells: os.Open fails, or the file's lines are scanned.
ParseCells(lines, unreadable) ==
    IF unreadable THEN [cells |-> Nil, err |-> "open", line |-> 0]
    ELSE ScanLines(lines, 1, {}, FALSE)

RECURSIVE SetToSeq(_)
SetToSeq(S) ==
    IF S = {} THEN << >>
    ELSE LET c == CHOOSE c \in S : TRUE IN <<c>> \o SetToSeq(S \ {c})

\* ----------------------------------------------------------------- inputs

\* Two adjacent cells in a corner of the coordinate range.
CornerA == <<MaxInt64, MinInt64>>

CornerB == <<MaxInt64 - 1, MinInt64>>

\* The lines the enumerated input files are made of: the header, another
\* comment, a blank line, a line with one integer, a line with a
\* non-numeric token, and two coordinate lines.
LineAlphabet ==
    { FILE_HEADER, <<"#", "c">>, << >>, <<"1">>, <<"x", " ", "1">>,
      FormatCell(CornerA), FormatCell(CornerB) }

SeqsUpTo(A, n) == UNION {[1..k -> A] : k \in 0..n}

Block == {<<0, 0>>, <<1, 0>>, <<0, 1>>, <<1, 1>>}

Blinker == {<<0, 0>>, <<1, 0>>, <<2, 0>>}

LShape == {<<0, 0>>, <<1, 0>>, <<0, 1>>}

\* A vertical blinker on the upper extreme of the x axis.
EdgeBlinker == {<<MaxInt64, -1>>, <<MaxInt64, 0>>, <<MaxInt64, 1>>}

Patterns == {Block, Blinker, LShape, EdgeBlinker}

\* The file that holds the header and one line per cell of P.
PatternFile(P) ==
    <<FILE_HEADER>> \o [k \in 1..Cardinality(P) |-> FormatCell(SetToSeq(P)[k])]

Files == SeqsUpTo(LineAlphabet, MaxLines) \cup {PatternFile(P) : P \in Patterns}

\* ------------------------------------------------------------------ state

VARIABLES
    file,              \* the lines of the file the flag *inputArg names
    argFile,           \* the lines of the file the argument inputFile names
    unreadable,        \* os.Open(inputFile) fails
    iterations,        \* the -iterations flag
    pc,                \* where runGameOfLife is
    cells,             \* the current cell set (Nil before and on failure)
    err,               \* "" or the kind of error runGameOfLife returns
    errLine,           \* the number in the "failed to parse line" message
    iteration,         \* the loop counter
    dyingCells,
    birthedCells,
    deadNeighborCells, \* the set deadNeighbors collects before sending
    todo,              \* what the range loop at pc has yet to visit
    output,            \* the lines written to os.Stdout
    nbCell,            \* Cell.neighbors: the receiver
    neighborsCh,       \* Cell.neighbors: the cells sent so far
    nbClosed,          \* Cell.neighbors: close(neighborsCh) has run
    curCell,           \* the loop variable cell of the pass main is in
    aliveCount,        \* numAliveNeighbors (called by main): its counter
    mainNb,            \* the neighbors producer main's numAliveNeighbors drains
    dn,                \* the deadNeighbors producer goroutine
    dnNb,              \* the neighbors producer deadNeighbors drains
    dnSent             \* the bag of cells sent on deadNeighborsCh so far

inputVars == <<file, argFile, unreadable, iterations>>

runVars == <<pc, cells, err, errLine, iteration, dyingCells, birthedCells,
             deadNeighborCells, todo, output>>

nbVars == <<nbCell, neighborsCh, nbClosed>>

goVars == <<curCell, aliveCount, mainNb, dn, dnNb, dnSent>>

vars == <<file, argFile, unreadable, iterations, pc, cells, err, errLine,
          iteration, dyingCells, birthedCells, deadNeighborCells, todo, output,
          nbCell, neighborsCh, nbClosed,
          curCell, aliveCount, mainNb, dn, dnNb, dnSent>>

\* runGameOfLife has not started.
RunIdle ==
    /\ pc = "parse"
    /\ cells = Nil
    /\ err = ""
    /\ errLine = 0
    /\ iteration = 0
    /\ dyingCells = {}
    /\ birthedCells = {}
    /\ deadNeighborCells = {}
    /\ todo = {}
    /\ output = << >>

\* No Cell.neighbors producer is being observed.
NbIdle ==
    /\ nbCell = <<0, 0>>
    /\ neighborsCh = << >>
    /\ nbClosed = FALSE

\* A goroutine that has not been started (or a channel nobody made).
NoProducer == [state |-> "none", cell |-> <<0, 0>>, sent |-> << >>]

\* No goroutine has been started.
GoIdle ==
    /\ curCell = <<0, 0>>
    /\ aliveCount = 0
    /\ mainNb = NoProducer
    /\ dn = [state |-> "none", todo |-> {}]
    /\ dnNb = NoProducer
    /\ dnSent = EmptyBag

\* main: flag.Parse() has set the flags, and runGameOfLife(*inputArg,
\* *iterationsArg) is about to run: the argument names the flag's file.
Init ==
    /\ \/ unreadable = FALSE /\ file \in Files
       \/ unreadable = TRUE /\ file = << >>
    /\ argFile = file
    /\ iterations \in 0..MaxIterations
    /\ RunIdle
    /\ NbIdle
    /\ GoIdle

\* ------------------------------------------------------------ runGameOfLife

\* cells, err := parseCells(*inputArg); on an error runGameOfLife returns.
Parse ==
    /\ pc = "parse"
    /\ LET r == ParseCells(file, unreadable)
       IN  /\ cells' = r.cells
           /\ err' = r.err
           /\ errLine' = r.line
           /\ pc' = IF r.err # "" THEN "failed" ELSE "loop"
    /\ UNCHANGED <<inputVars, iteration, dyingCells, birthedCells,
                   deadNeighborCells, todo, output, nbVars, goVars>>

LoopContinuesInclusive(i, n) == i <= n

\* The loop condition iteration < iterations.
LoopContinues(i, n) == i < n

\* The loop head: enter the body (dyingCells := make(Cells), start ranging
\* over cells) or leave the loop for printCells.
LoopHead ==
    /\ pc = "loop"
    /\ IF LoopContinues(iteration, iterations)
       THEN /\ pc' = "death"
            /\ dyingCells' = {}
            /\ todo' = cells
       ELSE /\ pc' = "printHeader"
            /\ UNCHANGED <<dyingCells, todo>>
    /\ UNCHANGED <<inputVars, cells, err, errLine, iteration, birthedCells,
                   deadNeighborCells, output, nbVars, goVars>>

DeathPassEager ==
    /\ pc = "death"
    /\ \E cell \in todo :
          /\ IF ShouldDie(NumAliveNeighbors(cells, cell))
             THEN cells' = RemoveCell(cells, cell) /\ dyingCells' = AddCell(dyingCells, cell)
             ELSE UNCHANGED <<cells, dyingCells>>
          /\ todo' = todo \ {cell}
    /\ UNCHANGED <<inputVars, pc, err, errLine, iteration, birthedCells,
                   deadNeighborCells, output, nbVars, goVars>>

\* One round of "for cell := range cells" of the death pass.
DeathPass ==
    /\ pc = "death"
    /\ \E cell \in todo :
          /\ dyingCells' = IF ShouldDie(NumAliveNeighbors(cells, cell))
                           THEN AddCell(dyingCells, cell)
                           ELSE dyingCells
          /\ todo' = todo \ {cell}
    /\ UNCHANGED <<inputVars, pc, cells, err, errLine, iteration, birthedCells,
                   deadNeighborCells, output, nbVars, goVars>>

\* The death pass ends; birthedCells := make(Cells); cells.deadNeighbors()
\* starts its producer, which makes deadNeighborCells and ranges over cells.
DeathDone ==
    /\ pc = "death"
    /\ todo = {}
    /\ pc' = "scan"
    /\ birthedCells' = {}
    /\ deadNeighborCells' = {}
    /\ todo' = cells
    /\ UNCHANGED <<inputVars, cells, err, errLine, iteration, dyingCells,
                   output, nbVars, goVars>>

\* deadNeighbors: one round of "for cell := range cells".
Scan ==
    /\ pc = "scan"
    /\ \E cell \in todo :
          /\ deadNeighborCells' = deadNeighborCells \cup DeadNeighborsOf(cells, cell)
          /\ todo' = todo \ {cell}
    /\ UNCHANGED <<inputVars, pc, cells, err, errLine, iteration, dyingCells,
                   birthedCells, output, nbVars, goVars>>

\* deadNeighbors: the scan ends and the producer starts ranging over
\* deadNeighborCells to send them.
ScanDone ==
    /\ pc = "scan"
    /\ todo = {}
    /\ pc' = "birth"
    /\ todo' = deadNeighborCells
    /\ UNCHANGED <<inputVars, cells, err, errLine, iteration, dyingCells,
                   birthedCells, deadNeighborCells, output, nbVars, goVars>>

BirthPassEager ==
    /\ pc = "birth"
    /\ \E cell \in todo :
          /\ IF ShouldBeBorn(NumAliveNeighbors(cells, cell))
             THEN cells' = AddCell(cells, cell) /\ birthedCells' = AddCell(birthedCells, cell)
             ELSE UNCHANGED <<cells, birthedCells>>
          /\ todo' = todo \ {cell}
    /\ UNCHANGED <<inputVars, pc, err, errLine, iteration, dyingCells,
                   deadNeighborCells, output, nbVars, goVars>>

\* One round of "for cell := range cells.deadNeighbors()": the producer
\* sends a dead neighbour and the birth pass receives and tests it.
BirthPass ==
    /\ pc = "birth"
    /\ \E cell \in todo :
          /\ birthedCells' = IF ShouldBeBorn(NumAliveNeighbors(cells, cell))
                             THEN AddCell(birthedCells, cell)
                             ELSE birthedCells
          /\ todo' = todo \ {cell}
    /\ UNCHANGED <<inputVars, pc, cells, err, errLine, iteration, dyingCells,
                   deadNeighborCells, output, nbVars, goVars>>

\* close(deadNeighborsCh) ends the birth pass; "for cell := range
\* dyingCells" starts.
BirthDone ==
    /\ pc = "birth"
    /\ todo = {}
    /\ pc' = "applyDying"
    /\ todo' = dyingCells
    /\ UNCHANGED <<inputVars, cells, err, errLine, iteration, dyingCells,
                   birthedCells, deadNeighborCells, output, nbVars, goVars>>

\* One round of "for cell := range dyingCells": cells.removeCell(cell).
ApplyDying ==
    /\ pc = "applyDying"
    /\ \E cell \in todo :
          /\ cells' = RemoveCell(cells, cell)
          /\ todo' = todo \ {cell}
    /\ UNCHANGED <<inputVars, pc, err, errLine, iteration, dyingCells,
                   birthedCells, deadNeighborCells, output, nbVars, goVars>>

\* The removals end; "for cell := range birthedCells" starts.
ApplyDyingDone ==
    /\ pc = "applyDying"
    /\ todo = {}
    /\ pc' = "applyBirth"
    /\ todo' = birthedCells
    /\ UNCHANGED <<inputVars, cells, err, errLine, iteration, dyingCells,
                   birthedCells, deadNeighborCells, output, nbVars, goVars>>

\* One round of "for cell := range birthedCells": cells.addCell(cell).
ApplyBirth ==
    /\ pc = "applyBirth"
    /\ \E cell \in todo :
          /\ cells' = AddCell(cells, cell)
          /\ todo' = todo \ {cell}
    /\ UNCHANGED <<inputVars, pc, err, errLine, iteration, dyingCells,
                   birthedCells, deadNeighborCells, output, nbVars, goVars>>

\* The additions end; iteration++ and back to the loop head.
ApplyBirthDone ==
    /\ pc = "applyBirth"
    /\ todo = {}
    /\ pc' = "loop"
    /\ iteration' = iteration + 1
    /\ UNCHANGED <<inputVars, cells, err, errLine, dyingCells, birthedCells,
                   deadNeighborCells, todo, output, nbVars, goVars>>

\* printCells: fmt.Fprintf(w, "%s\n\n", FILE_HEADER) writes the header line
\* and an empty line; "for cell := range cells" starts.
PrintHeader ==
    /\ pc = "printHeader"
    /\ output' = <<FILE_HEADER, << >> >>
    /\ pc' = "printCells"
    /\ todo' = cells
    /\ UNCHANGED <<inputVars, cells, err, errLine, iteration, dyingCells,
                   birthedCells, deadNeighborCells, nbVars, goVars>>

PrintCellXX ==
    /\ pc = "printCells"
    /\ \E cell \in todo :
          /\ output' = Append(output, FormatCell(<<cell[1], cell[1]>>))
          /\ todo' = todo \ {cell}
    /\ UNCHANGED <<inputVars, pc, cells, err, errLine, iteration, dyingCells,
                   birthedCells, deadNeighborCells, nbVars, goVars>>

\* printCells: one round of "for cell := range cells".
PrintCell ==
    /\ pc = "printCells"
    /\ \E cell \in todo :
          /\ output' = Append(output, FormatCell(cell))
          /\ todo' = todo \ {cell}
    /\ UNCHANGED <<inputVars, pc, cells, err, errLine, iteration, dyingCells,
                   birthedCells, deadNeighborCells, nbVars, goVars>>

\* printCells and runGameOfLife return nil.
PrintDone ==
    /\ pc = "printCells"
    /\ todo = {}
    /\ pc' = "done"
    /\ UNCHANGED <<inputVars, cells, err, errLine, iteration, dyingCells,
                   birthedCells, deadNeighborCells, todo, output, nbVars, goVars>>

Next ==
    \/ Parse
    \/ LoopHead
    \/ DeathPass
    \/ DeathDone
    \/ Scan
    \/ ScanDone
    \/ BirthPass
    \/ BirthDone
    \/ ApplyDying
    \/ ApplyDyingDone
    \/ ApplyBirth
    \/ ApplyBirthDone
    \/ PrintHeader
    \/ PrintCell
    \/ PrintDone

Spec == Init /\ [][Next]_vars

\* ------------------------------------------------- runGameOfLife, called

\* A cell set in the corner of the range whose generation has a birth.
CornerL == {CornerA, CornerB, <<MaxInt64, MinInt64 + 1>>}

\* The files a direct caller of runGameOfLife names: with and without births,
\* and one without the header.
CallFiles ==
    { PatternFile(CornerL), <<FILE_HEADER, FormatCell(CornerA)>>,
      <<FormatCell(CornerB)>> }

\* A call runGameOfLife(inputFile, iterations) by any caller: the argument
\* and the flag may name different files.
InitCall ==
    /\ unreadable = FALSE
    /\ file \in CallFiles
    /\ argFile \in CallFiles
    /\ iterations \in 0..MaxIterations
    /\ RunIdle
    /\ NbIdle
    /\ GoIdle

SpecCall == InitCall /\ [][Next]_vars

\* ------------------------------------------------------------ Cell.neighbors

\* A call of cell.neighbors() on any cell of the coordinate range.
InitNeighbors ==
    /\ nbCell \in AllCells
    /\ neighborsCh = << >>
    /\ nbClosed = FALSE
    /\ unreadable = FALSE
    /\ file = << >>
    /\ argFile = << >>
    /\ iterations = 0
    /\ RunIdle
    /\ GoIdle

\* The producer goroutine sends its next cell and the consumer receives it.
NeighborsSend ==
    /\ ~nbClosed
    /\ Len(neighborsCh) < Len(Neighbors(nbCell))
    /\ neighborsCh' = Append(neighborsCh, Neighbors(nbCell)[Len(neighborsCh) + 1])
    /\ UNCHANGED <<inputVars, runVars, nbCell, nbClosed, goVars>>

\* close(neighborsCh)
NeighborsClose ==
    /\ ~nbClosed
    /\ Len(neighborsCh) = Len(Neighbors(nbCell))
    /\ nbClosed' = TRUE
    /\ UNCHANGED <<inputVars, runVars, nbCell, neighborsCh, goVars>>

NextNeighbors == NeighborsSend \/ NeighborsClose

SpecNeighbors == InitNeighbors /\ [][NextNeighbors]_vars

\* ------------------------------------------------------------- goroutines
\* runGameOfLife with its producer goroutines.  A channel is unbuffered: a
\* send and its receive are one step, enabled when both sides are there.
\* A producer is [state, cell, sent]: "running" until it closes its channel.

\* The positions of main inside numAliveNeighbors.
CountPcs == {"deathCount", "birthCount", "count"}

\* cell.neighbors(): make the channel and start the producer.
StartNeighbors(cell) == [state |-> "running", cell |-> cell, sent |-> << >>]

\* What the producer p sends next.
NextNeighbor(p) == Neighbors(p.cell)[Len(p.sent) + 1]

\* The producer p has a cell left to send.
HasNextNeighbor(p) == p.state = "running" /\ Len(p.sent) < Len(Neighbors(p.cell))

\* The death pass takes its next cell and calls cells.numAliveNeighbors.
GoDeathPick ==
    /\ pc = "death"
    /\ \E cell \in todo :
          /\ todo' = todo \ {cell}
          /\ curCell' = cell
          /\ mainNb' = StartNeighbors(cell)
    /\ aliveCount' = 0
    /\ pc' = "deathCount"
    /\ UNCHANGED <<inputVars, cells, err, errLine, iteration, dyingCells,
                   birthedCells, deadNeighborCells, output, nbVars,
                   dn, dnNb, dnSent>>

\* numAliveNeighbors, called by main: receive a neighbour and count it.
MainRecv ==
    /\ pc \in CountPcs
    /\ HasNextNeighbor(mainNb)
    /\ mainNb' = [mainNb EXCEPT !.sent = Append(@, NextNeighbor(mainNb))]
    /\ aliveCount' = IF HasCell(cells, NextNeighbor(mainNb))
                     THEN (aliveCount + 1) % Uint8Mod
                     ELSE aliveCount
    /\ UNCHANGED <<inputVars, runVars, nbVars, curCell, dn, dnNb, dnSent>>

MainNbCloseForgotten ==
    /\ mainNb.state = "running"
    /\ Len(mainNb.sent) = Len(Neighbors(mainNb.cell))
    /\ mainNb' = [mainNb EXCEPT !.state = "returned"]
    /\ UNCHANGED <<inputVars, runVars, nbVars, curCell, aliveCount, dn, dnNb,
                   dnSent>>

\* The producer main drains has sent everything: close(neighborsCh).
MainNbClose ==
    /\ mainNb.state = "running"
    /\ Len(mainNb.sent) = Len(Neighbors(mainNb.cell))
    /\ mainNb' = [mainNb EXCEPT !.state = "closed"]
    /\ UNCHANGED <<inputVars, runVars, nbVars, curCell, aliveCount, dn, dnNb,
                   dnSent>>

\* numAliveNeighbors returns to the death pass, which tests the count; the
\* locals of the call and the loop variable are gone.
GoDeathReturn ==
    /\ pc = "deathCount"
    /\ mainNb.state = "closed"
    /\ dyingCells' = IF ShouldDie(aliveCount) THEN AddCell(dyingCells, curCell)
                     ELSE dyingCells
    /\ pc' = "death"
    /\ curCell' = <<0, 0>>
    /\ aliveCount' = 0
    /\ mainNb' = NoProducer
    /\ UNCHANGED <<inputVars, cells, err, errLine, iteration, birthedCells,
                   deadNeighborCells, todo, output, nbVars, dn, dnNb, dnSent>>

\* The death pass ends; birthedCells := make(Cells); cells.deadNeighbors()
\* makes deadNeighborsCh and starts its goroutine; main starts receiving.
GoDeathDone ==
    /\ pc = "death"
    /\ todo = {}
    /\ birthedCells' = {}
    /\ dn' = [state |-> "start", todo |-> {}]
    /\ dnNb' = NoProducer
    /\ dnSent' = EmptyBag
    /\ pc' = "birthRecv"
    /\ UNCHANGED <<inputVars, cells, err, errLine, iteration, dyingCells,
                   deadNeighborCells, todo, output, nbVars,
                   curCell, aliveCount, mainNb>>

\* deadNeighbors: deadNeighborCells := make(Cells); "for cell := range
\* cells" starts.
DNScanStart ==
    /\ dn.state = "start"
    /\ dn' = [state |-> "scan", todo |-> cells]
    /\ deadNeighborCells' = {}
    /\ UNCHANGED <<inputVars, pc, cells, err, errLine, iteration, dyingCells,
                   birthedCells, todo, output, nbVars,
                   curCell, aliveCount, mainNb, dnNb, dnSent>>

\* deadNeighbors: the scan takes its next live cell and calls neighbors().
DNScanPick ==
    /\ dn.state = "scan"
    /\ dnNb.state # "running"
    /\ \E cell \in dn.todo :
          /\ dn' = [dn EXCEPT !.todo = @ \ {cell}]
          /\ dnNb' = StartNeighbors(cell)
    /\ UNCHANGED <<inputVars, runVars, nbVars, curCell, aliveCount, mainNb,
                   dnSent>>

IsDeadNeighborAlways(cs, neighbor) == TRUE

\* deadNeighbors: the test !cells.hasCell(neighbor).
IsDeadNeighbor(cs, neighbor) == ~HasCell(cs, neighbor)

\* deadNeighbors: receive a neighbour and keep it if it is dead.
DNRecv ==
    /\ dn.state = "scan"
    /\ HasNextNeighbor(dnNb)
    /\ dnNb' = [dnNb EXCEPT !.sent = Append(@, NextNeighbor(dnNb))]
    /\ deadNeighborCells' = IF IsDeadNeighbor(cells, NextNeighbor(dnNb))
                            THEN AddCell(deadNeighborCells, NextNeighbor(dnNb))
                            ELSE deadNeighborCells
    /\ UNCHANGED <<inputVars, pc, cells, err, errLine, iteration, dyingCells,
                   birthedCells, todo, output, nbVars,
                   curCell, aliveCount, mainNb, dn, dnSent>>

\* The producer deadNeighbors drains has sent everything: close.
DNNbClose ==
    /\ dnNb.state = "running"
    /\ Len(dnNb.sent) = Len(Neighbors(dnNb.cell))
    /\ dnNb' = [dnNb EXCEPT !.state = "closed"]
    /\ UNCHANGED <<inputVars, runVars, nbVars, curCell, aliveCount, mainNb,
                   dn, dnSent>>

\* deadNeighbors: the scan ends; "for deadNeighbor := range
\* deadNeighborCells" starts.
DNScanDone ==
    /\ dn.state = "scan"
    /\ dn.todo = {}
    /\ dnNb.state # "running"
    /\ dn' = [state |-> "send", todo |-> deadNeighborCells]
    /\ dnNb' = NoProducer
    /\ UNCHANGED <<inputVars, runVars, nbVars, curCell, aliveCount, mainNb,
                   dnSent>>

\* deadNeighborsCh <- deadNeighbor, received by the birth pass, which calls
\* cells.numAliveNeighbors on it.
DNSend ==
    /\ dn.state = "send"
    /\ pc = "birthRecv"
    /\ \E cell \in dn.todo :
          /\ dn' = [dn EXCEPT !.todo = @ \ {cell}]
          /\ dnSent' = dnSent (+) SetToBag({cell})
          /\ curCell' = cell
          /\ mainNb' = StartNeighbors(cell)
    /\ aliveCount' = 0
    /\ pc' = "birthCount"
    /\ UNCHANGED <<inputVars, cells, err, errLine, iteration, dyingCells,
                   birthedCells, deadNeighborCells, todo, output, nbVars, dnNb>>

\* close(deadNeighborsCh): the deadNeighbors goroutine is done.
DNClose ==
    /\ dn.state = "send"
    /\ dn.todo = {}
    /\ dn' = [dn EXCEPT !.state = "closed"]
    /\ UNCHANGED <<inputVars, runVars, nbVars, curCell, aliveCount, mainNb,
                   dnNb, dnSent>>

GoBirthReturnEager ==
    /\ pc = "birthCount"
    /\ mainNb.state = "closed"
    /\ IF ShouldBeBorn(aliveCount)
       THEN cells' = AddCell(cells, curCell) /\ birthedCells' = AddCell(birthedCells, curCell)
       ELSE UNCHANGED <<cells, birthedCells>>
    /\ pc' = "birthRecv"
    /\ curCell' = <<0, 0>>
    /\ aliveCount' = 0
    /\ mainNb' = NoProducer
    /\ UNCHANGED <<inputVars, err, errLine, iteration, dyingCells,
                   deadNeighborCells, todo, output, nbVars, dn, dnNb, dnSent>>

\* numAliveNeighbors returns to the birth pass, which tests the count; the
\* locals of the call and the loop variable are gone.
GoBirthReturn ==
    /\ pc = "birthCount"
    /\ mainNb.state = "closed"
    /\ birthedCells' = IF ShouldBeBorn(aliveCount)
                       THEN AddCell(birthedCells, curCell)
                       ELSE birthedCells
    /\ pc' = "birthRecv"
    /\ curCell' = <<0, 0>>
    /\ aliveCount' = 0
    /\ mainNb' = NoProducer
    /\ UNCHANGED <<inputVars, cells, err, errLine, iteration, dyingCells,
                   deadNeighborCells, todo, output, nbVars, dn, dnNb, dnSent>>

\* The receive on the closed deadNeighborsCh ends the birth pass; "for
\* cell := range dyingCells" starts.
GoBirthDone ==
    /\ pc = "birthRecv"
    /\ dn.state = "closed"
    /\ pc' = "applyDying"
    /\ todo' = dyingCells
    /\ UNCHANGED <<inputVars, cells, err, errLine, iteration, dyingCells,
                   birthedCells, deadNeighborCells, output, nbVars, goVars>>

\* The input files of the runs followed goroutine by goroutine.
GoFiles ==
    { PatternFile(CornerL), PatternFile(EdgeBlinker),
      <<FILE_HEADER, FormatCell(CornerA), FormatCell(CornerB)>> }

\* parseCells has returned the cells of the file and the loop of
\* runGameOfLife is reached; no goroutine has been started yet.
InitGo ==
    /\ unreadable = FALSE
    /\ file \in GoFiles
    /\ argFile = file
    /\ iterations \in 0..MaxIterations
    /\ pc = "loop"
    /\ cells = ParseCells(file, unreadable).cells
    /\ err = ""
    /\ errLine = 0
    /\ iteration = 0
    /\ dyingCells = {}
    /\ birthedCells = {}
    /\ deadNeighborCells = {}
    /\ todo = {}
    /\ output = << >>
    /\ NbIdle
    /\ GoIdle

NextGo ==
    \/ LoopHead
    \/ GoDeathPick
    \/ MainRecv
    \/ MainNbClose
    \/ GoDeathReturn
    \/ GoDeathDone
    \/ DNScanStart
    \/ DNScanPick
    \/ DNRecv
    \/ DNNbClose
    \/ DNScanDone
    \/ DNSend
    \/ DNClose
    \/ GoBirthReturn
    \/ GoBirthDone
    \/ ApplyDying
    \/ ApplyDyingDone
    \/ ApplyBirth
    \/ ApplyBirthDone
    \/ PrintHeader
    \/ PrintCell
    \/ PrintDone

SpecGo == InitGo /\ [][NextGo]_vars

\* The Go scheduler runs a goroutine that can take a step.
SpecGoFair == SpecGo /\ WF_vars(NextGo)

\* ------------------------------------------------------ numAliveNeighbors

\* The cells numAliveNeighbors is called on: interior, edge and corners.
CountCells ==
    { <<0, 0>>, <<MinInt64, 0>>, <<1, MaxInt64>>, CornerA,
      <<MinInt64, MaxInt64>> }

\* The cells the sets it is called with are made of: the cell, the cells
\* around it, and two cells that are no neighbours of any of CountCells.
CountUniverse(cell) ==
    {d \in AllCells : /\ d[1] - cell[1] \in -1..1
                      /\ d[2] - cell[2] \in -1..1}
    \cup {<<MinInt64, MinInt64>>, <<MaxInt64 - 1, 1>>}

\* A call cells.numAliveNeighbors(cell): the producer is started and the
\* counter is zero.
InitCount ==
    /\ unreadable = FALSE
    /\ file = << >>
    /\ argFile = << >>
    /\ iterations = 0
    /\ pc = "count"
    /\ \E cell \in CountCells :
          /\ curCell = cell
          /\ mainNb = StartNeighbors(cell)
          /\ cells \in SUBSET CountUniverse(cell)
    /\ aliveCount = 0
    /\ err = ""
    /\ errLine = 0
    /\ iteration = 0
    /\ dyingCells = {}
    /\ birthedCells = {}
    /\ deadNeighborCells = {}
    /\ todo = {}
    /\ output = << >>
    /\ NbIdle
    /\ dn = [state |-> "none", todo |-> {}]
    /\ dnNb = NoProducer
    /\ dnSent = EmptyBag

\* return aliveCount
CountReturn ==
    /\ pc = "count"
    /\ mainNb.state = "closed"
    /\ pc' = "counted"
    /\ UNCHANGED <<inputVars, cells, err, errLine, iteration, dyingCells,
                   birthedCells, deadNeighborCells, todo, output, nbVars, goVars>>

NextCount == MainRecv \/ MainNbClose \/ CountReturn

SpecCount == InitCount /\ [][NextCount]_vars

\* ----------------------------------------------------------------- claims

\* What parseCells returned for the input of this run.
Parsed == ParseCells(file, unreadable).cells

\* The Moore neighbourhood on the unbounded grid (no wrapping, no range).
MooreNeighbours(c) ==
    {<<c[1] + dx, c[2] + dy>> : dx \in -1..1, dy \in -1..1} \ {c}

LiveCount(C, c) == Cardinality(MooreNeighbours(c) \cap C)

\* Every position a cell of the coordinate range can give birth to.
GridAround == ((MinInt64 - 1)..(MaxInt64 + 1)) \X ((MinInt64 - 1)..(MaxInt64 + 1))

\* The standard Life rule on the unbounded grid, for C inside the range.
StandardLife(C) ==
    {c \in C : LiveCount(C, c) \in {2, 3}}
    \cup {d \in GridAround \ C : LiveCount(C, d) = 3}

NotAtExtremes(C) ==
    \A c \in C : /\ c[1] > MinInt64 /\ c[1] < MaxInt64
                 /\ c[2] > MinInt64 /\ c[2] < MaxInt64

RECURSIVE StandardLifeN(_, _)
StandardLifeN(C, n) == IF n = 0 THEN C ELSE StandardLife(StandardLifeN(C, n - 1))

\* The Life rule among the cells of the coordinate range only.
RangeLife(C) ==
    {c \in C : LiveCount(C, c) \in {2, 3}}
    \cup {d \in AllCells \ C : LiveCount(C, d) = 3}

RECURSIVE RangeLifeN(_, _)
RangeLifeN(C, n) == IF n = 0 THEN C ELSE RangeLife(RangeLifeN(C, n - 1))

\* The changes of a generation are computed and none is applied yet.
AtApplyEntry == pc = "applyDying" /\ todo = dyingCells

C2_SnapshotReads ==
    [][ /\ (pc \in {"death", "scan", "birth"} => cells' = cells)
        /\ (cells' # cells => pc \in {"parse", "applyDying", "applyBirth"})
        /\ (pc' = "applyDying" /\ pc # "applyDying" =>
              /\ pc = "birth" /\ todo = {}
              /\ dyingCells' = {c \in cells' : ShouldDie(NumAliveNeighbors(cells', c))}
              /\ birthedCells' = {d \in deadNeighborCells' :
                                    ShouldBeBorn(NumAliveNeighbors(cells', d))})
        /\ (iteration' # iteration =>
              /\ pc = "applyBirth" /\ todo = {}
              /\ dyingCells \cap cells = {}
              /\ birthedCells \subseteq cells) ]_vars

\* C2 witness: a generation with deaths and births has applied them all.
C2_Witness ==
    /\ pc = "applyBirth"
    /\ todo = {}
    /\ dyingCells # {}
    /\ birthedCells # {}

\* C3: whatever order the range loops took, the final cell set is one
\* function of the parsed set and the iteration count.
C3_OrderIndependent ==
    pc = "done" => cells = RangeLifeN(Parsed, iterations)

\* C3 witness: a run of two iterations, whose loops had several cells to
\* order, has finished with live cells.
C3_Witness ==
    /\ pc = "done"
    /\ iterations = 2
    /\ Cardinality(Parsed) > 2
    /\ Cardinality(dyingCells) > 1
    /\ Cardinality(birthedCells) > 1
    /\ cells # {}

\* The Moore neighbours of c that lie in the coordinate range.
MooreInRange(c) == MooreNeighbours(c) \cap AllCells

OnExtreme(v) == v = MinInt64 \/ v = MaxInt64

\* C4: the cells sent are distinct cells of the in-range Moore
\* neighbourhood (never the cell itself, never a wrapped or saturated
\* coordinate), and at the close all of them have been sent: 8 in the
\* interior, 5 on an edge, 3 in a corner.
C4_NeighborsExact ==
    /\ \A i, j \in 1..Len(neighborsCh) : i # j => neighborsCh[i] # neighborsCh[j]
    /\ RangeOf(neighborsCh) \subseteq MooreInRange(nbCell)
    /\ nbClosed =>
          /\ RangeOf(neighborsCh) = MooreInRange(nbCell)
          /\ Len(neighborsCh) =
                IF OnExtreme(nbCell[1]) /\ OnExtreme(nbCell[2]) THEN 3
                ELSE IF OnExtreme(nbCell[1]) \/ OnExtreme(nbCell[2]) THEN 5
                ELSE 8

\* C4 witness: the producer of a corner cell has closed after three sends.
C4_Witness ==
    /\ nbClosed
    /\ nbCell = <<MaxInt64, MinInt64>>
    /\ Len(neighborsCh) = 3

\* C5: the lines printCells wrote for a non-empty set are accepted by
\* parseCells and give the same set back.
C5_RoundTrip ==
    (pc = "done" /\ cells # {}) =>
        /\ ParseCells(output, FALSE).err = ""
        /\ ParseCells(output, FALSE).cells = cells

\* A line parseCells fails on: not a comment and not two integers.
IsMalformedLine(line) ==
    ~HasPrefix(TrimSpace(line)) /\ Fscanf(TrimSpace(line)).items < 2

IsCommentLine(line) == HasPrefix(TrimSpace(line))

IsCoordinateLine(line) ==
    ~HasPrefix(TrimSpace(line)) /\ Fscanf(TrimSpace(line)).items = 2

\* The 1-based ordinal of the first malformed line of f.
FirstMalformed(f) ==
    CHOOSE i \in 1..Len(f) :
        IsMalformedLine(f[i]) /\ \A j \in 1..(i - 1) : ~IsMalformedLine(f[j])

\* C6: the number in the malformed-line error is the 1-based ordinal of
\* the offending line in the file.
C6_ErrorLineOrdinal ==
    (pc = "failed" /\ err = "line") => errLine = FirstMalformed(file)

\* Every line is a comment (the header included) or a coordinate line.
WellFormedLines(f) ==
    \A i \in 1..Len(f) : IsCommentLine(f[i]) \/ IsCoordinateLine(f[i])

\* A coordinate line comes before any header line.
FirstContentIsCoordinate(f) ==
    \E i \in 1..Len(f) :
        /\ IsCoordinateLine(f[i])
        /\ \A j \in 1..(i - 1) : TrimSpace(f[j]) # FILE_HEADER

\* C7: an otherwise well-formed file whose first content line is a
\* coordinate line is rejected with the header error, also when the header
\* token comes on a later line.
C7_HeaderAfterCoordinate ==
    (pc # "parse" /\ ~unreadable /\ WellFormedLines(file)
       /\ FirstContentIsCoordinate(file)) =>
        /\ pc = "failed"
        /\ err = "header"
        /\ cells = Nil

\* C7 witness: such a file, with the header token after a coordinate
\* line, has been rejected.
C7_Witness ==
    /\ pc = "failed"
    /\ err = "header"
    /\ WellFormedLines(file)
    /\ FirstContentIsCoordinate(file)
    /\ \E i \in 1..Len(file) : file[i] = FILE_HEADER

\* C8: a file is accepted only if its first line is the header token.
C8_HeaderFirstRecord ==
    (pc # "parse" /\ err = "") => (file # << >> /\ file[1] = FILE_HEADER)

\* C9: a loading error leaves runGameOfLife returned with a nil cell set:
\* no iteration has run, nothing is computed, nothing is written, and
\* nothing more happens.
C9_NoPartialResult ==
    /\ (pc # "parse" /\ ParseCells(file, unreadable).err # "") => pc = "failed"
    /\ unreadable /\ pc # "parse" => err = "open"
    /\ pc = "failed" =>
          /\ err \in {"open", "header", "line"}
          /\ cells = Nil
          /\ iteration = 0
          /\ dyingCells = {}
          /\ birthedCells = {}
          /\ deadNeighborCells = {}
          /\ todo = {}
          /\ output = << >>
          /\ ~ENABLED Next

\* C9 witness: parsing failed on a malformed line after the header and a
\* coordinate line had been read.
C9_Witness ==
    /\ pc = "failed"
    /\ err = "line"
    /\ \E i, j, k \in 1..Len(file) :
          /\ i < j /\ j < k
          /\ file[i] = FILE_HEADER
          /\ IsCoordinateLine(file[j])
          /\ k = FirstMalformed(file)

\* C10: with iterations = 0 the loop body is never entered and the set
\* printCells gets is the set parseCells returned.
C10_ZeroIterations ==
    iterations = 0 =>
        /\ pc \notin {"death", "scan", "birth", "applyDying", "applyBirth"}
        /\ pc \in {"printHeader", "printCells", "done"} =>
              /\ cells = Parsed
              /\ iteration = 0
        /\ pc = "done" => RangeOf(output) = {FILE_HEADER, << >>} \cup
                                            {FormatCell(c) : c \in Parsed}

\* C10 witness: a run with iterations = 0 has printed a non-empty set.
C10_Witness ==
    /\ iterations = 0
    /\ pc = "done"
    /\ cells # {}
    /\ cells = Parsed

\* The blinker's other phase: the vertical line through (1, 0).
VerticalBlinker == {<<1, -1>>, <<1, 0>>, <<1, 1>>}

\* C11: started from the 2x2 block, the cell set at every loop head is the
\* block, and the dying and the birthed set of every generation are empty.
C11_BlockStable ==
    Parsed = Block =>
        /\ pc \in {"loop", "printHeader", "printCells", "done"} => cells = Block
        /\ pc \in {"death", "scan", "birth", "applyDying", "applyBirth"} =>
              /\ dyingCells = {}
              /\ birthedCells = {}
              /\ cells = Block

\* C11 witness: two generations of the block have been applied.
C11_Witness ==
    /\ Parsed = Block
    /\ pc = "loop"
    /\ iteration = 2
    /\ cells = Block

\* C12: started from the horizontal blinker, the cell set at the loop head
\* is the horizontal line after an even number of generations and the
\* vertical line after an odd number.
C12_BlinkerPeriod ==
    (Parsed = Blinker /\ pc = "loop") =>
        cells = IF iteration % 2 = 0 THEN Blinker ELSE VerticalBlinker

\* C12 witness: the blinker is back after two generations, having been
\* vertical in between (its last generation removed and added two cells).
C12_Witness ==
    /\ Parsed = Blinker
    /\ pc = "loop"
    /\ iteration = 2
    /\ cells = Blinker
    /\ dyingCells = {<<1, -1>>, <<1, 1>>}
    /\ birthedCells = {<<0, 0>>, <<2, 0>>}

\* C13: what printCells has written is the header line, an empty line and
\* then one line per cell visited, pairwise different, each the "x y" of a
\* live cell; when it returns every live cell has its line.
C13_PrintExact ==
    pc \in {"printCells", "done"} =>
        /\ Len(output) >= 2
        /\ output[1] = FILE_HEADER
        /\ output[2] = << >>
        /\ Len(output) = 2 + Cardinality(cells \ todo)
        /\ \A k \in 3..Len(output) :
              /\ Fscanf(output[k]).items = 2
              /\ Fscanf(output[k]).cell \in cells \ todo
              /\ output[k] = FormatInt(Fscanf(output[k]).cell[1]) \o <<" ">>
                               \o FormatInt(Fscanf(output[k]).cell[2])
        /\ \A j, k \in 3..Len(output) : j # k => output[j] # output[k]
        /\ pc = "done" =>
              /\ todo = {}
              /\ {Fscanf(output[k]).cell : k \in 3..Len(output)} = cells

\* C13 witness: printCells has returned after writing several cells.
C13_Witness ==
    /\ pc = "done"
    /\ Cardinality(cells) >= 3
    /\ Len(output) = 2 + Cardinality(cells)

\* C16: when the changes of a generation are about to be applied,
\* dyingCells is a subset of the cell set, birthedCells is disjoint from
\* it and from dyingCells, and removing then adding gives the same set as
\* adding then removing; that set is what the loop head gets.
C16_ApplyCommutes ==
    /\ AtApplyEntry =>
          /\ dyingCells \subseteq cells
          /\ birthedCells \cap cells = {}
          /\ dyingCells \cap birthedCells = {}
          /\ (cells \ dyingCells) \cup birthedCells
                = (cells \cup birthedCells) \ dyingCells
    /\ pc \in {"applyDying", "applyBirth"} => dyingCells \cap birthedCells = {}
    /\ (pc = "applyBirth" /\ todo = {}) =>
          /\ dyingCells \cap cells = {}
          /\ birthedCells \subseteq cells

\* C16 witness: a generation with deaths and births is about to be applied.
C16_Witness ==
    /\ AtApplyEntry
    /\ dyingCells # {}
    /\ birthedCells # {}

\* What parseCells returns for the file the argument inputFile names.
ParsedArg == ParseCells(argFile, unreadable)

\* C17: the cell set runGameOfLife starts from, and the loading error it
\* returns, are those of the file its inputFile argument names, whatever
\* the global flag is.
C17_ExplicitArgumentsOnly ==
    pc # "parse" =>
        /\ err = ParsedArg.err
        /\ (pc = "loop" /\ iteration = 0) => cells = ParsedArg.cells

\* C14: the counter of numAliveNeighbors is the number of cells received so
\* far that are in the set, so it stays within 0..8 and never wraps; what
\* it returns is the number of in-range Moore neighbours of the cell that
\* are in the set, the cell itself and every other cell not counted.
C14_CountExact ==
    pc \in {"count", "counted"} =>
        /\ aliveCount = Cardinality(RangeOf(mainNb.sent) \cap cells)
        /\ aliveCount \in 0..8
        /\ Len(mainNb.sent) <= 8
        /\ curCell \notin RangeOf(mainNb.sent)
        /\ pc = "counted" =>
              /\ aliveCount = Cardinality(MooreInRange(curCell) \cap cells)
              /\ aliveCount = NumAliveNeighbors(cells, curCell)

\* C14 witness: a count has returned 3 for a corner cell that is itself in
\* the set, all its neighbours being alive.
C14_Witness ==
    /\ pc = "counted"
    /\ curCell = CornerA
    /\ curCell \in cells
    /\ MooreInRange(curCell) \subseteq cells
    /\ aliveCount = 3

\* The dead cells with a live Moore neighbour.
DeadCandidates(C) == {d \in AllCells \ C : MooreInRange(d) \cap C # {}}

\* The birth pass is running: deadNeighborsCh is being received from.
InBirthPass == pc \in {"birthRecv", "birthCount"}

\* C15: no cell is sent on deadNeighborsCh twice; every cell sent is a dead
\* cell with a live neighbour; at the close every such cell has been sent;
\* and the cell set does not change while the deadNeighbors goroutine runs.
C15_DeadNeighborsExact ==
    /\ [](/\ \A cell \in BagToSet(dnSent) : CopiesIn(cell, dnSent) = 1
          /\ InBirthPass => BagToSet(dnSent) \subseteq DeadCandidates(cells)
          /\ (InBirthPass /\ dn.state = "closed") =>
                BagToSet(dnSent) = DeadCandidates(cells))
    /\ [][dn.state \in {"start", "scan", "send"} => cells' = cells]_vars

\* C15 witness: deadNeighborsCh has been closed after several sends.
C15_Witness ==
    /\ InBirthPass
    /\ dn.state = "closed"
    /\ Cardinality(BagToSet(dnSent)) >= 5
    /\ BagToSet(dnSent) = DeadCandidates(cells)

\* A step of the deadNeighbors goroutine that reads the cell set.
DNReadsCells == DNScanStart \/ DNScanPick \/ DNRecv

\* A step of main that writes the cell set.
MainWritesCells == ApplyDying \/ ApplyBirth

\* C18: a write of the cell set by main and a read of it by the
\* deadNeighbors goroutine are never both possible; while that goroutine
\* scans, main waits in the receive; nothing is sent before the scan is
\* complete; and the cell set changes only when deadNeighborsCh is closed
\* and no Cell.neighbors producer is running.
C18_NoDataRace ==
    /\ [](/\ ~(ENABLED MainWritesCells /\ ENABLED DNReadsCells)
          /\ dn.state \in {"start", "scan"} => pc = "birthRecv"
          /\ BagToSet(dnSent) # {} => dn.state \in {"send", "closed"}
          /\ pc \in {"applyDying", "applyBirth"} => dn.state = "closed")
    /\ [][cells' # cells =>
            /\ dn.state = "closed"
            /\ mainNb.state # "running"
            /\ dnNb.state # "running"]_vars

\* C18 witness: main has written the cell set, after a birth pass that
\* received candidates from a goroutine that is now done.
C18_Witness ==
    /\ pc = "applyBirth"
    /\ todo # birthedCells
    /\ dn.state = "closed"
    /\ BagToSet(dnSent) # {}

\* runGameOfLife has returned.
Terminated == pc = "done"

\* No producer goroutine is running or blocked on a send.
NoProducerLeft ==
    /\ mainNb.state \in {"none", "closed"}
    /\ dnNb.state \in {"none", "closed"}
    /\ dn.state \in {"none", "closed"}

\* C19: a run that has not ended can always take a step; whenever main is
\* outside the two passes (applying changes, at the loop head, printing)
\* every producer has closed its channel and is gone; and under fair
\* scheduling the run ends.
C19_Terminates ==
    /\ [](/\ ~Terminated => ENABLED NextGo
          /\ pc \in {"applyDying", "applyBirth", "loop", "printHeader",
                     "printCells", "done"} => NoProducerLeft)
    /\ <>Terminated

\* C19 witness: a run of two generations with births has ended.
C19_Witness ==
    /\ pc = "done"
    /\ iterations = 2
    /\ cells # {}
    /\ dn.state = "closed"

====
